---- MODULE Spec2Model ----
(***************************************************************************)
(* The page-job pipeline of the OCR service: the SQLite store behind       *)
(* app/crud.py, the worker loop of app/worker.py and the submit / delete   *)
(* handlers of app/routes.py.                                              *)
(*                                                                         *)
(* The store is one SQLite file (app/database.py).  Every session has its  *)
(* own connection; a session that has issued a write holds the database    *)
(* write lock until it commits or rolls back, and its writes are invisible *)
(* to every other session until then.  `committed` is what any other       *)
(* session reads, `working` is what the lock holder reads and writes.      *)
(***************************************************************************)
EXTENDS Integers, Sequences, FiniteSets, Bags, TLC

\* ------------------------------------------------------------------ bounds
NumWorkers == 2
MaxJobs == 2
MaxPages == 2

Workers == 1 .. NumWorkers
JobIds == 1 .. MaxJobs
PageIds == 1 .. (MaxJobs * MaxPages)

\* sessions that can hold the write lock
NoLock == 0
IngestSession == NumWorkers + 1

NULL == "NULL"
NoWorker == 0
NullText == <<>>

\* page images a rasterizer can hand to submit_job, and the uploads built
\* from them (an upload is the ordered list `pages`)
Images == {"a", "b"}
Uploads == {s \in UNION {[1 .. n -> Images] : n \in 0 .. MaxPages} :
              \A i \in 1 .. Len(s) : s[i] = (IF i = 1 THEN "a" ELSE "b")}

\* what the backend returns for an image (a mock keyed on the bytes)
OcrOutput(image) == <<"md", image>>

NoExc == [kind |-> "none", msg |-> NULL]
OcrError == [kind |-> "OCRProcessingError", msg |-> "OCR failed after 3 attempts"]
OtherError == [kind |-> "Exception", msg |-> "unexpected"]
StoreError == [kind |-> "Exception", msg |-> "store error"]

\* ------------------------------------------------------------------ rows
NoJob == [exists |-> FALSE, status |-> NULL, total_pages |-> 0]

NoPage == [exists |-> FALSE, parent_job_id |-> 0, page_number |-> 0,
           image_data |-> NULL, markdown_text |-> NullText, status |-> NULL,
           worker_id |-> NoWorker, error_message |-> NULL, created_at |-> 0]

OcrJob(total_pages) ==
    [exists |-> TRUE, status |-> "queued", total_pages |-> total_pages]

OcrPageJob(parent, number, image, now) ==
    [exists |-> TRUE, parent_job_id |-> parent, page_number |-> number,
     image_data |-> image, markdown_text |-> NullText, status |-> "queued",
     worker_id |-> NoWorker, error_message |-> NULL, created_at |-> now]

\* no submit_job request is in flight
IngestIdle == [pc |-> "idle", job |-> 0, pages |-> <<>>, i |-> 0]

EmptyDb == [jobs |-> [j \in JobIds |-> NoJob], pages |-> [p \in PageIds |-> NoPage]]

VARIABLES committed, working, lock,
          pc, page_job, markdown, exc,
          stop_event, active_count,
          ingest, next_job, next_page, clock,
          claim_true, process_count,
          worker_tasks, worker_ids, start_calls, adapter, request

vars == <<committed, working, lock, pc, page_job, markdown, exc,
          stop_event, active_count, ingest, next_job, next_page, clock,
          claim_true, process_count, worker_tasks, worker_ids, start_calls,
          adapter, request>>

storeVars == <<committed, working, lock>>
workerVars == <<pc, page_job, markdown, exc>>
poolVars == <<stop_event, active_count>>
ingestVars == <<ingest, next_job, next_page, clock>>
histVars == <<claim_true, process_count>>
managerVars == <<worker_tasks, worker_ids, start_calls>>

\* ------------------------------------------------------------ store reads
PagesOf(db, j) == {p \in PageIds : db.pages[p].exists /\ db.pages[p].parent_job_id = j}

get_job(db, j) == db.jobs[j].exists

QueuedPages(db) == {p \in PageIds : db.pages[p].exists /\ db.pages[p].status = "queued"}

\* variant: ORDER BY created_at DESC
get_next_queued_page_newest(db) ==
    {p \in QueuedPages(db) :
        \A q \in QueuedPages(db) : db.pages[p].created_at >= db.pages[q].created_at}

\* the rows `ORDER BY created_at LIMIT 1` may return; empty when none is queued
get_next_queued_page(db) ==
    {p \in QueuedPages(db) :
        \A q \in QueuedPages(db) : db.pages[p].created_at <= db.pages[q].created_at}

\* PageResult(page_number=..., markdown_text=..., status=...)
PageResult(row) ==
    [page_number |-> row.page_number, markdown_text |-> row.markdown_text,
     status |-> row.status]

\* get_job_result: the job's rows as PageResults, sorted by page_number; 404
\* (NULL here) when the job does not exist
get_job_result(db, j) ==
    IF ~get_job(db, j) THEN NULL
    ELSE LET P == PagesOf(db, j)
             order == CHOOSE s \in [1 .. Cardinality(P) -> P] :
                          /\ \A a, b \in 1 .. Cardinality(P) : a # b => s[a] # s[b]
                          /\ \A a, b \in 1 .. Cardinality(P) :
                                 a < b => db.pages[s[a]].page_number <= db.pages[s[b]].page_number
         IN  [k \in 1 .. Cardinality(P) |-> PageResult(db.pages[order[k]])]

\* ----------------------------------------------------------- store writes
create_job(db, j, total_pages) ==
    [db EXCEPT !.jobs[j] = OcrJob(total_pages)]

\* variant: the page_number argument is dropped and the parameter default
\* (page_number: int = 1) is stored
create_page_job_default_number(db, p, parent, number, image, now) ==
    [db EXCEPT !.pages[p] = OcrPageJob(parent, 1, image, now)]

\* variant: every page of a request is stamped with the time of its first page
create_page_job_request_time(db, p, parent, number, image, now) ==
    [db EXCEPT !.pages[p] = OcrPageJob(parent, number, image, now - number + 1)]

\* OcrPageJob(id=uuid4(), parent_job_id, page_number, image_data,
\* status="queued"); db.add; flush: created_at defaults to utcnow()
create_page_job(db, p, parent, number, image, now) ==
    [db EXCEPT !.pages[p] = OcrPageJob(parent, number, image, now)]

\* rows matched by the conditional UPDATE of claim_page_job
ClaimMatches(db, p) == db.pages[p].exists /\ db.pages[p].status = "queued"

\* variant: the UPDATE sets the status and leaves worker_id as it was
claim_page_job_no_worker(db, p, w) ==
    IF ClaimMatches(db, p)
    THEN [db EXCEPT !.pages[p].status = "processing"]
    ELSE db

\* update(OcrPageJob).where(id == page_job_id, status == "queued")
\*     .values(status="processing", worker_id=worker_id)
claim_page_job(db, p, w) ==
    IF ClaimMatches(db, p)
    THEN [db EXCEPT !.pages[p].status = "processing", !.pages[p].worker_id = w]
    ELSE db

\* variant: error_message is left out of the UPDATE's values
update_page_job_result_no_error(db, p, text, status, error) ==
    IF db.pages[p].exists
    THEN [db EXCEPT !.pages[p].markdown_text = text,
                    !.pages[p].status = status]
    ELSE db

update_page_job_result(db, p, text, status, error) ==
    IF db.pages[p].exists
    THEN [db EXCEPT !.pages[p].markdown_text = text,
                    !.pages[p].status = status,
                    !.pages[p].error_message = error]
    ELSE db

\* variant: the UPDATE has no WHERE clause
update_job_status_every_job(db, j, status) ==
    [db EXCEPT !.jobs = [k \in JobIds |->
                            IF db.jobs[k].exists
                            THEN [db.jobs[k] EXCEPT !.status = status]
                            ELSE db.jobs[k]]]

\* update(OcrJob).where(OcrJob.id == job_id).values(status=status, ...)
update_job_status(db, j, status) ==
    IF db.jobs[j].exists THEN [db EXCEPT !.jobs[j].status = status] ELSE db

\* variant: the completed branch tests any(...) where the code tests all(...)
check_and_update_parent_status_any_completed(db, j) ==
    LET statuses == {db.pages[p].status : p \in PagesOf(db, j)} IN
    IF statuses = {} THEN db
    ELSE IF "completed" \in statuses
         THEN update_job_status(db, j, "completed")
    ELSE IF "failed" \in statuses /\ \A s \in statuses : s \in {"completed", "failed"}
         THEN update_job_status(db, j, "failed")
    ELSE IF "processing" \in statuses
         THEN update_job_status(db, j, "processing")
    ELSE db

\* variant: the failed branch lacks `all(s in ("completed", "failed") ...)`
check_and_update_parent_status_any_failed(db, j) ==
    LET statuses == {db.pages[p].status : p \in PagesOf(db, j)} IN
    IF statuses = {} THEN db
    ELSE IF \A s \in statuses : s = "completed"
         THEN update_job_status(db, j, "completed")
    ELSE IF "failed" \in statuses
         THEN update_job_status(db, j, "failed")
    ELSE IF "processing" \in statuses
         THEN update_job_status(db, j, "processing")
    ELSE db

check_and_update_parent_status(db, j) ==
    LET statuses == {db.pages[p].status : p \in PagesOf(db, j)} IN
    IF statuses = {} THEN db
    ELSE IF \A s \in statuses : s = "completed"
         THEN update_job_status(db, j, "completed")
    ELSE IF "failed" \in statuses /\ \A s \in statuses : s \in {"completed", "failed"}
         THEN update_job_status(db, j, "failed")
    ELSE IF "processing" \in statuses
         THEN update_job_status(db, j, "processing")
    ELSE db

\* DELETE FROM ocr_jobs WHERE id = j.  The engine is created without
\* PRAGMA foreign_keys, so SQLite does not act on ON DELETE CASCADE, and a
\* Core delete() does not run the ORM relationship cascade.
delete_job(db, j) == [db EXCEPT !.jobs[j] = NoJob]

\* AsyncSession.__aexit__ closes the session: an open transaction is rolled
\* back, so the store keeps its committed content.
\* variant: closing the session commits the open transaction
SessionClose_commits(com, work) == work

\* variant: closing the session keeps the claims made in it, a page left in
\* processing stays in processing
SessionClose_keeps_claims(com, work) ==
    [com EXCEPT !.pages = [p \in PageIds |->
                              IF work.pages[p].exists /\ work.pages[p].status = "processing"
                              THEN work.pages[p]
                              ELSE com.pages[p]]]

SessionClose(com, work) == com

\* variant: the handler's error is swallowed and what was flushed is committed
SessionRollback_commits(com, work) == work

\* get_db: `except Exception: await session.rollback()`
SessionRollback(com, work) == com

\* get_db: `await session.commit()` after the handler returned
SessionCommit(com, work) == work

\* how often something has happened to a page so far: never, once, or more
Bump(c) == IF c = "never" THEN "once" ELSE "more"

\* ------------------------------------------------------ backend adapters
\* The adapters of app/ocr_backends.  `adapter` is one adapter object and
\* the process_image call running on it: the fields before `pc` are set by
\* the constructor, `client` is the cached handle self._client, the rest are
\* the locals of the call and what an observer of the call counts.
\* `tmp_files` is the set of staged files of the adapter that exist on disk,
\* each named by the attempt that created it; `tmp_path` is the local of that
\* name, 0 for None.
Variants == {"huggingface", "deepseek", "ollama"}
Modes == {"auto", "text", "table"}

\* range(3)
MaxAttempts == 3

\* what the Text task can return: has_table is computed from the text
Texts == {"plain", "tabular"}

\* "|" in text_result and ("---" in text_result or "| :" in text_result)
HasTable(text) == text = "tabular"

\* what the Table task can return
Htmls == {"<table>", "nohtml", ""}

\* table_html and "<table" in table_html
UsableTable(html) == html = "<table>"

ConfigError == [kind |-> "OCRProcessingError", msg |-> "Self-hosted backend not configured"]
RetriesExhausted == [kind |-> "OCRProcessingError", msg |-> "OCR failed after 3 attempts"]
ApiError == [kind |-> "OCRProcessingError", msg |-> "API request failed"]
AllApiFailed == [kind |-> "OCRProcessingError", msg |-> "All API attempts failed"]

\* HuggingFaceBackend(hf_token, mode), DeepSeekBackend(hf_token, mode),
\* OllamaBackend(ollama_url): configured is bool(self._base_url)
Construct(variant, mode, configured) ==
    [variant |-> variant, mode |-> mode, configured |-> configured,
     client |-> FALSE, pc |-> "idle", attempt |-> 0, calls |-> 0, failed |-> 0,
     tmp_path |-> 0, tmp_files |-> {}, text_result |-> NULL, slept |-> <<>>,
     result |-> NULL, error |-> NoExc]

Adapters ==
    {Construct("huggingface", m, TRUE) : m \in Modes}
        \cup {Construct("deepseek", "auto", TRUE)}
        \cup {Construct("ollama", "auto", c) : c \in BOOLEAN}

\* get_ocr_backend() with the default settings
get_ocr_backend == Construct("huggingface", "auto", TRUE)

\* variant: the same sleep before every retry
Pow2_constant(n) == 1

\* backoff = 2**attempt
Pow2(n) == IF n = 0 THEN 1 ELSE IF n = 1 THEN 2 ELSE 4

\* --------------------------------------------------------------- initial
\* no HTTP request is being validated
NoRequest == [op |-> "none"]

\* worker_id = f"worker-{i + 1}-{uuid.uuid4().hex[:8]}"
Uuids == {"u1", "u2"}

\* variant: the id is the random part alone
worker_id_uuid_only(i, u) == <<0, u>>

worker_id(i, u) == <<i, u>>

\* the store, the worker loops and the request handlers at start-up, NumWorkers
\* loops running
PipelineInit ==
    /\ committed = EmptyDb
    /\ working = EmptyDb
    /\ lock = NoLock
    /\ pc = [w \in Workers |-> "loop"]
    /\ page_job = [w \in Workers |-> 0]
    /\ markdown = [w \in Workers |-> NullText]
    /\ exc = [w \in Workers |-> NoExc]
    /\ stop_event = FALSE
    /\ active_count = 0
    /\ ingest = IngestIdle
    /\ next_job = 1
    /\ next_page = 1
    /\ clock = 1
    /\ claim_true = [p \in PageIds |-> "never"]
    /\ process_count = [p \in PageIds |-> "never"]

\* lifespan: init_db(), then worker_manager.start(settings.NUM_WORKERS)
Init ==
    /\ PipelineInit
    /\ worker_tasks = NumWorkers
    /\ worker_ids = [i \in 1 .. NumWorkers |-> worker_id(i, "u1")]
    /\ start_calls = "once"
    /\ adapter = get_ocr_backend
    /\ request = NoRequest

\* ------------------------------------------------------- worker: the loop
\* while not self._stop_event.is_set(): ... async with AsyncSessionLocal()
LoopTop(w) ==
    /\ pc[w] = "loop"
    /\ pc' = [pc EXCEPT ![w] = IF stop_event THEN "stopped" ELSE "poll"]
    /\ UNCHANGED <<storeVars, page_job, markdown, exc, poolVars, ingestVars, histVars>>
    /\ UNCHANGED <<managerVars, adapter, request>>

\* page_job = await get_next_queued_page(db)
Poll(w) ==
    /\ pc[w] = "poll"
    /\ \/ /\ get_next_queued_page(committed) = {}
          /\ pc' = [pc EXCEPT ![w] = "idle_sleep"]
          /\ UNCHANGED page_job
       \/ /\ \E p \in get_next_queued_page(committed) :
                 page_job' = [page_job EXCEPT ![w] = p]
          /\ pc' = [pc EXCEPT ![w] = "claim"]
       \/ \* the store call fails with a transient I/O error
          /\ pc' = [pc EXCEPT ![w] = "close_err"]
          /\ UNCHANGED page_job
    /\ UNCHANGED <<storeVars, markdown, exc, poolVars, ingestVars, histVars>>
    /\ UNCHANGED <<managerVars, adapter, request>>

\* async with self._lock: self._active_count += 1
ActiveInc(n) == n + 1

\* variant: the finally block leaves the counter alone
ActiveDec_none(n) == n

\* finally: async with self._lock: self._active_count -= 1
ActiveDec(n) == n - 1

\* claimed = await claim_page_job(db, page_job.id, worker_id); a worker that
\* claimed the page runs on to the backend call without suspending: the
\* pool's lock is never held across an await, so taking it does not yield
Claim(w) ==
    /\ pc[w] = "claim"
    /\ \/ \* the UPDATE takes the write lock and runs
          /\ lock = NoLock
          /\ lock' = w
          /\ working' = claim_page_job(committed, page_job[w], w)
          /\ IF ClaimMatches(committed, page_job[w])
             THEN /\ pc' = [pc EXCEPT ![w] = "process"]
                  /\ active_count' = ActiveInc(active_count)
                  /\ claim_true' = [claim_true EXCEPT ![page_job[w]] = Bump(@)]
             ELSE /\ pc' = [pc EXCEPT ![w] = "close_ok"]
                  /\ UNCHANGED <<active_count, claim_true>>
       \/ \* another session holds the write lock: "database is locked"
          /\ lock # NoLock
          /\ pc' = [pc EXCEPT ![w] = "close_err"]
          /\ UNCHANGED <<lock, working, active_count, claim_true>>
       \/ \* the store call fails with a transient I/O error
          /\ lock = NoLock
          /\ pc' = [pc EXCEPT ![w] = "close_err"]
          /\ UNCHANGED <<lock, working, active_count, claim_true>>
    /\ UNCHANGED <<committed, page_job, markdown, exc, stop_event, ingestVars, process_count>>
    /\ UNCHANGED <<managerVars, adapter, request>>

\* markdown_text = await ocr_backend.process_image(page_job.image_data)
Process(w) ==
    /\ pc[w] = "process"
    /\ process_count' = [process_count EXCEPT ![page_job[w]] = Bump(@)]
    /\ \/ /\ markdown' = [markdown EXCEPT ![w] = OcrOutput(committed.pages[page_job[w]].image_data)]
          /\ pc' = [pc EXCEPT ![w] = "record_ok"]
          /\ UNCHANGED exc
       \/ /\ \E e \in {OcrError, OtherError} : exc' = [exc EXCEPT ![w] = e]
          /\ pc' = [pc EXCEPT ![w] = "record_fail"]
          /\ UNCHANGED markdown
    /\ UNCHANGED <<storeVars, page_job, poolVars, ingestVars, claim_true>>
    /\ UNCHANGED <<managerVars, adapter, request>>

\* await update_page_job_result(db, page_job.id, markdown_text, "completed")
RecordOk(w) ==
    /\ pc[w] = "record_ok"
    /\ \/ /\ working' = update_page_job_result(working, page_job[w], markdown[w], "completed", NULL)
          /\ pc' = [pc EXCEPT ![w] = "recompute_ok"]
          /\ UNCHANGED exc
       \/ \* the store call fails with a transient I/O error
          /\ exc' = [exc EXCEPT ![w] = StoreError]
          /\ pc' = [pc EXCEPT ![w] = "record_fail"]
          /\ UNCHANGED working
    /\ UNCHANGED <<committed, lock, page_job, markdown, poolVars, ingestVars, histVars>>
    /\ UNCHANGED <<managerVars, adapter, request>>

\* await check_and_update_parent_status(db, page_job.parent_job_id), then
\* the finally block
RecomputeOk(w) ==
    /\ pc[w] = "recompute_ok"
    /\ \/ /\ working' = check_and_update_parent_status(working, working.pages[page_job[w]].parent_job_id)
          /\ pc' = [pc EXCEPT ![w] = "close_ok"]
          /\ active_count' = ActiveDec(active_count)
          /\ UNCHANGED exc
       \/ \* the store call fails with a transient I/O error
          /\ exc' = [exc EXCEPT ![w] = StoreError]
          /\ pc' = [pc EXCEPT ![w] = "record_fail"]
          /\ UNCHANGED <<working, active_count>>
    /\ UNCHANGED <<committed, lock, page_job, markdown, stop_event, ingestVars, histVars>>
    /\ UNCHANGED <<managerVars, adapter, request>>

\* except OCRProcessingError / except Exception:
\*     await update_page_job_result(db, page_job.id, None, "failed", str(e))
\* an error raised here leaves through the finally block
RecordFail(w) ==
    /\ pc[w] = "record_fail"
    /\ \/ /\ working' = update_page_job_result(working, page_job[w], NullText, "failed", exc[w].msg)
          /\ pc' = [pc EXCEPT ![w] = "recompute_fail"]
          /\ UNCHANGED active_count
       \/ \* the store call fails with a transient I/O error
          /\ pc' = [pc EXCEPT ![w] = "close_err"]
          /\ active_count' = ActiveDec(active_count)
          /\ UNCHANGED working
    /\ UNCHANGED <<committed, lock, page_job, markdown, exc, stop_event, ingestVars, histVars>>
    /\ UNCHANGED <<managerVars, adapter, request>>

\*     await check_and_update_parent_status(db, page_job.parent_job_id)
\* then the finally block
RecomputeFail(w) ==
    /\ pc[w] = "recompute_fail"
    /\ \/ /\ working' = check_and_update_parent_status(working, working.pages[page_job[w]].parent_job_id)
          /\ pc' = [pc EXCEPT ![w] = "close_ok"]
       \/ \* the store call fails with a transient I/O error
          /\ pc' = [pc EXCEPT ![w] = "close_err"]
          /\ UNCHANGED working
    /\ active_count' = ActiveDec(active_count)
    /\ UNCHANGED <<committed, lock, page_job, markdown, exc, stop_event, ingestVars, histVars>>
    /\ UNCHANGED <<managerVars, adapter, request>>

\* where the loop goes once the session is closed: straight to the next
\* iteration, or through `except Exception as e: ... await asyncio.sleep(2.0)`
\* variant: there is no outer handler, the error leaves the coroutine
AfterSession_propagates(p) == IF p = "close_ok" THEN "loop" ELSE "stopped"

\* variant: `while True`, the stop signal is not looked at after an iteration
\* that found a page
AfterSession_skips_test(p) == IF p = "close_ok" THEN "poll" ELSE "err_sleep"

AfterSession(p) == IF p = "close_ok" THEN "loop" ELSE "err_sleep"

\* seconds slept at a position of the loop: asyncio.sleep(1.0), asyncio.sleep(2.0)
SleepSeconds(p) == IF p = "idle_sleep" THEN 1 ELSE IF p = "err_sleep" THEN 2 ELSE 0

\* leaving `async with AsyncSessionLocal() as db`; the iteration's locals
\* (page_job, markdown_text, e) are dead from here on
Close(w) ==
    /\ pc[w] \in {"close_ok", "close_err"}
    /\ IF lock = w
       THEN /\ committed' = SessionClose(committed, working)
            /\ working' = SessionClose(committed, working)
            /\ lock' = NoLock
       ELSE UNCHANGED storeVars
    /\ pc' = [pc EXCEPT ![w] = AfterSession(pc[w])]
    /\ exc' = [exc EXCEPT ![w] = NoExc]
    /\ page_job' = [page_job EXCEPT ![w] = 0]
    /\ markdown' = [markdown EXCEPT ![w] = NullText]
    /\ UNCHANGED <<poolVars, ingestVars, histVars>>
    /\ UNCHANGED <<managerVars, adapter, request>>

\* if page_job is None: await asyncio.sleep(1.0); continue
IdleSleep(w) ==
    /\ pc[w] = "idle_sleep"
    /\ pc' = [pc EXCEPT ![w] = "loop"]
    /\ UNCHANGED <<storeVars, page_job, markdown, exc, poolVars, ingestVars, histVars>>
    /\ UNCHANGED <<managerVars, adapter, request>>

\* except Exception as e: ... await asyncio.sleep(2.0)
ErrorSleep(w) ==
    /\ pc[w] = "err_sleep"
    /\ pc' = [pc EXCEPT ![w] = "loop"]
    /\ UNCHANGED <<storeVars, page_job, markdown, exc, poolVars, ingestVars, histVars>>
    /\ UNCHANGED <<managerVars, adapter, request>>

run_worker(w) ==
    \/ LoopTop(w)
    \/ Poll(w)
    \/ Claim(w)
    \/ Process(w)
    \/ RecordOk(w)
    \/ RecomputeOk(w)
    \/ RecordFail(w)
    \/ RecomputeFail(w)
    \/ Close(w)
    \/ IdleSleep(w)
    \/ ErrorSleep(w)

\* self._stop_event.set()
stop ==
    /\ ~stop_event
    /\ stop_event' = TRUE
    /\ UNCHANGED <<storeVars, workerVars, active_count, ingestVars, histVars>>
    /\ UNCHANGED <<managerVars, adapter, request>>

\* await asyncio.gather(*self._workers, return_exceptions=True) returns once
\* every worker coroutine is over; self._workers.clear(); self._worker_ids.clear()
stop_return ==
    /\ stop_event
    /\ worker_tasks > 0
    /\ \A w \in Workers : pc[w] = "stopped"
    /\ worker_tasks' = 0
    /\ worker_ids' = <<>>
    /\ UNCHANGED <<storeVars, workerVars, poolVars, ingestVars, histVars, start_calls,
                   adapter, request>>

\* start(num_workers) on a pool whose worker list is empty (never started, or
\* stop() has returned): self._stop_event.clear(), then one id and one task
\* appended per worker
start(n) ==
    /\ worker_tasks = 0
    /\ stop_event' = FALSE
    /\ \E u \in [1 .. n -> Uuids] :
           worker_ids' = worker_ids \o [i \in 1 .. n |-> worker_id(i, u[i])]
    /\ worker_tasks' = worker_tasks + n
    /\ start_calls' = Bump(start_calls)
    /\ pc' = [w \in Workers |-> IF w <= n THEN "loop" ELSE pc[w]]
    /\ UNCHANGED <<storeVars, page_job, markdown, exc, active_count, ingestVars,
                   histVars, adapter, request>>

\* ------------------------------------------------------------ submit_job
\* job = await create_job(db, ..., total_pages=len(pages), ...)
submit_job(pages) ==
    /\ ingest.pc = "idle"
    /\ next_job <= MaxJobs
    /\ lock = NoLock
    /\ lock' = IngestSession
    /\ working' = create_job(committed, next_job, Len(pages))
    /\ ingest' = [pc |-> "pages", job |-> next_job, pages |-> pages, i |-> 0]
    /\ next_job' = next_job + 1
    /\ UNCHANGED <<committed, workerVars, poolVars, next_page, clock, histVars>>
    /\ UNCHANGED <<managerVars, adapter, request>>

\* for i, page_bytes in enumerate(pages): await create_page_job(...)
\* then the handler returns and get_db commits; an error rolls back
submit_job_pages ==
    /\ ingest.pc = "pages"
    /\ IF ingest.i < Len(ingest.pages)
       THEN \/ /\ working' = create_page_job(working, next_page, ingest.job,
                                             ingest.i + 1, ingest.pages[ingest.i + 1], clock)
               /\ ingest' = [ingest EXCEPT !.i = @ + 1]
               /\ next_page' = next_page + 1
               /\ clock' = clock + 1
               /\ UNCHANGED <<committed, lock, next_job>>
            \/ \* the INSERT fails with a transient I/O error
               /\ committed' = SessionRollback(committed, working)
               /\ working' = SessionRollback(committed, working)
               /\ lock' = NoLock
               /\ ingest' = IngestIdle
               \* nothing of the request is left in the store: the ids and
               \* timestamps it drew are free again
               /\ next_page' = next_page - ingest.i
               /\ clock' = clock - ingest.i
               /\ next_job' = next_job - 1
       ELSE /\ committed' = SessionCommit(committed, working)
            /\ working' = SessionCommit(committed, working)
            /\ lock' = NoLock
            /\ ingest' = IngestIdle
            /\ UNCHANGED <<next_job, next_page, clock>>
    /\ UNCHANGED <<workerVars, poolVars, histVars>>
    /\ UNCHANGED <<managerVars, adapter, request>>

\* ---------------------------------------------------- delete_job_endpoint
delete_job_endpoint(j) ==
    /\ get_job(committed, j)
    /\ lock = NoLock
    /\ committed' = SessionCommit(committed, delete_job(committed, j))
    /\ working' = SessionCommit(committed, delete_job(committed, j))
    /\ UNCHANGED <<lock, workerVars, poolVars, ingestVars, histVars>>
    /\ UNCHANGED <<managerVars, adapter, request>>

Next ==
    \/ \E w \in Workers : run_worker(w)
    \/ stop
    \/ stop_return
    \/ \E pages \in Uploads : submit_job(pages)
    \/ submit_job_pages
    \/ \E j \in JobIds : delete_job_endpoint(j)

Spec == Init /\ [][Next]_vars

\* ------------------------------------------------ process_image (adapters)
pipelineVars == <<storeVars, workerVars, poolVars, ingestVars, histVars>>

\* a finally clause that leaves the staged file on disk
Unlink_none(a) == a

\* finally: if tmp_path and os.path.exists(tmp_path): os.unlink(tmp_path)
Unlink(a) ==
    IF a.tmp_path # 0 /\ a.tmp_path \in a.tmp_files
    THEN [a EXCEPT !.tmp_files = @ \ {a.tmp_path}]
    ELSE a

\* `return <text>` inside the try block: the finally clause runs on the way out
Return(a, text) == [Unlink(a) EXCEPT !.pc = "returned", !.result = text]

\* a call of process_image starts: the locals are fresh, self._client stays
process_image ==
    /\ adapter.pc \in {"idle", "returned", "raised"}
    /\ LET a == [Construct(adapter.variant, adapter.mode, adapter.configured)
                    EXCEPT !.client = adapter.client, !.tmp_files = adapter.tmp_files]
       IN  adapter' =
               IF a.variant = "ollama"
               THEN IF a.configured
                    THEN [a EXCEPT !.pc = "chat"]
                    ELSE [a EXCEPT !.pc = "raised", !.error = ConfigError]
               ELSE [a EXCEPT !.pc = "stage"]
    /\ UNCHANGED <<pipelineVars, managerVars, request>>

\* except Exception as e: last_error = e; backoff = 2**attempt;
\* if attempt < 2: self._client = None; await asyncio.sleep(backoff)
AttemptFailed(a) ==
    IF a.attempt < MaxAttempts - 1
    THEN [a EXCEPT !.failed = @ + 1, !.client = FALSE, !.pc = "backoff"]
    ELSE [a EXCEPT !.failed = @ + 1, !.pc = "exhausted"]

\* for attempt in range(3): try: tmp = tempfile.NamedTemporaryFile(...);
\* tmp_path = tmp.name; tmp.write(image_bytes); tmp.close()
StageImage ==
    /\ adapter.pc = "stage"
    /\ LET name   == adapter.attempt + 1
           staged == [adapter EXCEPT !.tmp_path = name, !.tmp_files = @ \cup {name}]
       IN  \/ adapter' = [staged EXCEPT !.pc = "call"]
           \/ \* tmp.write raises: the file exists and tmp_path names it
              adapter' = AttemptFailed(staged)
           \/ \* NamedTemporaryFile raises: no file, tmp_path keeps its value
              adapter' = AttemptFailed(adapter)
    /\ UNCHANGED <<pipelineVars, managerVars, request>>

\* the first _call_ocr of an attempt: "Table" in table mode, "Text" in text
\* and auto mode, "Markdown" in the DeepSeek adapter
CallOcr ==
    /\ adapter.pc = "call"
    /\ \/ \* client.predict returns
          \E text \in Texts :
              LET a == [adapter EXCEPT !.client = TRUE, !.calls = @ + 1] IN
              adapter' =
                  IF a.variant = "huggingface" /\ a.mode = "auto" /\ HasTable(text)
                  THEN [a EXCEPT !.text_result = text, !.pc = "table_pass"]
                  ELSE Return(a, <<text>>)
       \/ \* client.predict raises
          adapter' = AttemptFailed([adapter EXCEPT !.client = TRUE, !.calls = @ + 1])
       \/ \* Client(...) raises in _get_client: no call goes out
          /\ ~adapter.client
          /\ adapter' = AttemptFailed(adapter)
    /\ UNCHANGED <<pipelineVars, managerVars, request>>

\* auto mode, pass 2: table_html = await self._call_ocr(tmp_path, "Table"),
\* an exception of which is logged and swallowed
TablePass ==
    /\ adapter.pc = "table_pass"
    /\ LET a == [adapter EXCEPT !.calls = @ + 1] IN
       \/ \E html \in Htmls :
              adapter' = Return(a, IF UsableTable(html)
                                   THEN <<a.text_result, html>>
                                   ELSE <<a.text_result>>)
       \/ adapter' = Return(a, <<a.text_result>>)
    /\ UNCHANGED <<pipelineVars, managerVars, request>>

\* the sleep between two attempts is over; finally: unlink; next attempt
Backoff ==
    /\ adapter.pc = "backoff"
    /\ adapter' = [Unlink(adapter) EXCEPT !.slept = Append(@, Pow2(adapter.attempt)),
                                          !.attempt = @ + 1, !.pc = "stage"]
    /\ UNCHANGED <<pipelineVars, managerVars, request>>

\* the third attempt failed; finally: unlink; the loop is over:
\* raise OCRProcessingError(f"OCR failed after 3 attempts: {last_error}")
Exhausted ==
    /\ adapter.pc = "exhausted"
    /\ adapter' = [Unlink(adapter) EXCEPT !.pc = "raised", !.error = RetriesExhausted]
    /\ UNCHANGED <<pipelineVars, managerVars, request>>

\* OllamaBackend: return await self._call_openai_api(data_uri)
\* _call_openai_api turns httpx.HTTPError, KeyError and IndexError into
\* OCRProcessingError, which process_image re-raises; any other exception
\* (a body that is not JSON, a choices entry that is not a mapping) falls
\* through to the native API
ChatCall ==
    /\ adapter.pc = "chat"
    /\ LET a == [adapter EXCEPT !.calls = @ + 1] IN
       \/ \E text \in Texts : adapter' = [a EXCEPT !.pc = "returned", !.result = <<text>>]
       \/ adapter' = [a EXCEPT !.failed = @ + 1, !.pc = "raised", !.error = ApiError]
       \/ adapter' = [a EXCEPT !.failed = @ + 1, !.pc = "generate"]
    /\ UNCHANGED <<pipelineVars, managerVars, request>>

\* return await self._call_ollama_api(base64_str)
\* except Exception as e: raise OCRProcessingError(f"All API attempts failed: {e}")
GenerateCall ==
    /\ adapter.pc = "generate"
    /\ LET a == [adapter EXCEPT !.calls = @ + 1] IN
       \/ \E text \in Texts : adapter' = [a EXCEPT !.pc = "returned", !.result = <<text>>]
       \/ adapter' = [a EXCEPT !.failed = @ + 1, !.pc = "raised", !.error = AllApiFailed]
    /\ UNCHANGED <<pipelineVars, managerVars, request>>

\* one adapter of any variant and mode, process_image called on it again and
\* again; the pipeline stands still
BackendInit ==
    /\ PipelineInit
    /\ worker_tasks = NumWorkers
    /\ worker_ids = [i \in 1 .. NumWorkers |-> worker_id(i, "u1")]
    /\ start_calls = "once"
    /\ adapter \in Adapters
    /\ request = NoRequest

BackendNext ==
    \/ process_image
    \/ StageImage
    \/ CallOcr
    \/ TablePass
    \/ Backoff
    \/ Exhausted
    \/ ChatCall
    \/ GenerateCall

BackendSpec == BackendInit /\ [][BackendNext]_vars

\* ------------------------------------------------------- the worker pool
\* a store that holds one committed two-page job, as submit_job leaves it
SeededDb ==
    create_page_job(create_page_job(create_job(EmptyDb, 1, 2), 1, 1, 1, "a", 1),
                    2, 1, 2, "b", 2)

\* WorkerManager() as constructed, no start() yet, over an empty store or
\* the seeded one
PoolInit ==
    /\ committed \in {EmptyDb, SeededDb}
    /\ working = committed
    /\ lock = NoLock
    /\ pc = [w \in Workers |-> "stopped"]
    /\ page_job = [w \in Workers |-> 0]
    /\ markdown = [w \in Workers |-> NullText]
    /\ exc = [w \in Workers |-> NoExc]
    /\ stop_event = FALSE
    /\ active_count = 0
    /\ ingest = IngestIdle
    /\ next_job = (IF committed = EmptyDb THEN 1 ELSE 2)
    /\ next_page = (IF committed = EmptyDb THEN 1 ELSE 3)
    /\ clock = (IF committed = EmptyDb THEN 1 ELSE 3)
    /\ claim_true = [p \in PageIds |-> "never"]
    /\ process_count = [p \in PageIds |-> "never"]
    /\ worker_tasks = 0
    /\ worker_ids = <<>>
    /\ start_calls = "never"
    /\ adapter = get_ocr_backend
    /\ request = NoRequest

PoolNext ==
    \/ \E n \in 1 .. NumWorkers : start(n)
    \/ \E w \in Workers : run_worker(w)
    \/ stop
    \/ stop_return

PoolSpec == PoolInit /\ [][PoolNext]_vars

\* the event loop runs every worker coroutine that can run, and stop() once
\* its gather is done
PoolFairSpec ==
    /\ PoolSpec
    /\ \A w \in Workers : WF_vars(run_worker(w))
    /\ WF_vars(stop_return)

\* ------------------------------------- request validation (app/routes.py)
ALLOWED_EXTENSIONS == {".pdf", ".png", ".jpg", ".jpeg", ".tiff", ".bmp", ".webp"}

ALLOWED_CONTENT_TYPES ==
    {"application/pdf", "image/png", "image/jpeg", "image/tiff", "image/bmp", "image/webp"}

MAX_FILE_SIZE_MB == 50

\* max_size = settings.MAX_FILE_SIZE_MB * 1024 * 1024
max_size == MAX_FILE_SIZE_MB * 1024 * 1024

\* a file name is the sequence of its parts between the dots: <<"scan", "png">>
\* is "scan.png", <<"README">> has no dot, <<"">> is the empty or missing name
Filenames ==
    {<<"scan", "png">>, <<"scan", "PNG">>, <<"doc", "pdf">>, <<"a", "tar", "jpeg">>,
     <<"tool", "exe">>, <<"README">>, <<"png">>, <<"">>}

\* str.lower() on the parts used above
Lower(s) == CASE s = "PNG" -> "png" [] OTHER -> s

\* ext = "" ; if "." in filename: ext = "." + filename.rsplit(".", 1)[1].lower()
Ext(filename) ==
    IF Len(filename) >= 2 THEN "." \o Lower(filename[Len(filename)]) ELSE ""

\* the Content-Type of the uploaded part; NULL when the client sent none
ContentTypes == {NULL, "image/png", "application/pdf", "application/octet-stream"}

FileSizes == {0, 1, max_size, max_size + 1}

\* a POST /ocr/submit as the handler receives it; pdf_ok and pdf_pages are
\* what convert_from_bytes would do with the bytes
SubmitRequests ==
    [op : {"submit"}, pc : {"received"}, filename : Filenames,
     content_type : ContentTypes, size : FileSizes, pdf_ok : BOOLEAN,
     pdf_pages : 0..MaxPages, code : {0}, total_pages : {0}, created : {FALSE}]

\* the validation part of submit_job: the status code of the response, and
\* whether the handler went on to create_job
submit_job_response(r) ==
    IF Ext(r.filename) \notin ALLOWED_EXTENSIONS
    THEN [r EXCEPT !.pc = "done", !.code = 400]
    ELSE IF r.content_type # NULL /\ r.content_type \notin ALLOWED_CONTENT_TYPES
    THEN [r EXCEPT !.pc = "done", !.code = 400]
    ELSE IF r.size > max_size
    THEN [r EXCEPT !.pc = "done", !.code = 413]
    ELSE IF Ext(r.filename) = ".pdf" /\ ~r.pdf_ok
    THEN [r EXCEPT !.pc = "done", !.code = 400]
    ELSE [r EXCEPT !.pc = "done", !.code = 200, !.created = TRUE,
                   !.total_pages = IF Ext(r.filename) = ".pdf" THEN r.pdf_pages ELSE 1]

submit_job_validate ==
    /\ request.op = "submit"
    /\ request.pc = "received"
    /\ request' = submit_job_response(request)
    /\ UNCHANGED <<pipelineVars, managerVars, adapter>>

MaxPageSize == 100

Max(a, b) == IF a >= b THEN a ELSE b

Min(a, b) == IF a <= b THEN a ELSE b

\* the number of rows of
\*   select(OcrJob).order_by(...).offset((page - 1) * page_size).limit(page_size)
\* over n stored jobs; SQLite reads a negative LIMIT as no limit and a
\* negative OFFSET as 0
list_jobs(n, page, page_size) ==
    LET offset == (page - 1) * page_size
        avail  == Max(0, n - Max(0, offset))
    IN  IF page_size < 0 THEN avail ELSE Min(page_size, avail)

\* a GET /ocr/jobs over a store that holds `jobs` jobs
ListRequests ==
    [op : {"list"}, pc : {"received"}, page : {-1, 0, 1, 2},
     page_size : {-1, 0, 1, 20, MaxPageSize, MaxPageSize + 1},
     jobs : {0, MaxJobs, MaxPageSize + 1},
     code : {0}, queried : {FALSE}, returned : {0}]

list_all_jobs_response(r) ==
    IF r.page_size > MaxPageSize
    THEN [r EXCEPT !.pc = "done", !.code = 400]
    ELSE IF r.page < 1
    THEN [r EXCEPT !.pc = "done", !.code = 400]
    ELSE [r EXCEPT !.pc = "done", !.code = 200, !.queried = TRUE,
                   !.returned = list_jobs(r.jobs, r.page, r.page_size)]

list_all_jobs ==
    /\ request.op = "list"
    /\ request.pc = "received"
    /\ request' = list_all_jobs_response(request)
    /\ UNCHANGED <<pipelineVars, managerVars, adapter>>

HandlerInit ==
    /\ PipelineInit
    /\ worker_tasks = NumWorkers
    /\ worker_ids = [i \in 1..NumWorkers |-> worker_id(i, "u1")]
    /\ start_calls = "once"
    /\ adapter = get_ocr_backend
    /\ request \in SubmitRequests \cup ListRequests

HandlerNext ==
    \/ submit_job_validate
    \/ list_all_jobs

HandlerSpec == HandlerInit /\ [][HandlerNext]_vars

\* ------------------------------------------- the store operations, alone
\* The functions of app/crud.py called one at a time in one session, as the
\* tests of src/tests/test_crud.py call them: `committed` is the store before
\* the call, `working` what the session sees after it, `request` the call.
PageStatuses == {"queued", "processing", "completed", "failed"}

\* the seeded job's page p taken to status st by the worker's calls
Staged(db, p, st) ==
    CASE st = "queued" -> db
      [] st = "processing" -> claim_page_job(db, p, 1)
      [] st = "completed" ->
             update_page_job_result(claim_page_job(db, p, 1), p,
                                    OcrOutput(db.pages[p].image_data), "completed", NULL)
      [] st = "failed" ->
             update_page_job_result(claim_page_job(db, p, 1), p,
                                    NullText, "failed", OcrError.msg)

\* the seeded two-page job and a second job of one page, both as submitted
TwoJobsDb == create_page_job(create_job(SeededDb, 2, 1), 3, 2, 1, "a", 3)

\* the stores the calls start from: the first job's pages in any two
\* statuses, before and after its status has been recomputed
CrudStores ==
    {IF r THEN check_and_update_parent_status(Staged(Staged(TwoJobsDb, 1, a), 2, b), 1)
          ELSE Staged(Staged(TwoJobsDb, 1, a), 2, b) :
        a \in PageStatuses, b \in PageStatuses, r \in BOOLEAN}

\* create_page_job called with neither parent_job_id nor job_id
NoParent == 0

\* the id and the timestamp the next INSERT into ocr_page_jobs gets
FreePage == 4

CrudCalls ==
    [op : {"create_page_job"}, pc : {"called"}, parent_job_id : {NoParent, 1, 2},
     page_number : 1..(MaxPages + 1), image_data : Images, raised : {FALSE}]
    \cup [op : {"claim_page_job"}, pc : {"called"}, page_job_id : 1..FreePage,
          worker_id : Workers, returned : {FALSE}]
    \cup [op : {"update_page_job_result"}, pc : {"called"}, page_job_id : 1..FreePage,
          status : {"completed", "failed"}]
    \cup [op : {"check_and_update_parent_status"}, pc : {"called"}, job_id : JobIds]

\* create_page_job: ValueError without a parent id, else the row is added
\* and flushed; the table has no constraint over (parent_job_id, page_number)
call_create_page_job ==
    /\ request.op = "create_page_job"
    /\ request.pc = "called"
    /\ IF request.parent_job_id = NoParent
       THEN /\ request' = [request EXCEPT !.pc = "done", !.raised = TRUE]
            /\ UNCHANGED working
       ELSE /\ request' = [request EXCEPT !.pc = "done"]
            /\ working' = create_page_job(committed, FreePage, request.parent_job_id,
                                          request.page_number, request.image_data, FreePage)
    /\ UNCHANGED <<committed, lock, workerVars, poolVars, ingestVars, histVars>>
    /\ UNCHANGED <<managerVars, adapter>>

\* claim_page_job: returns whether the UPDATE matched a row
call_claim_page_job ==
    /\ request.op = "claim_page_job"
    /\ request.pc = "called"
    /\ working' = claim_page_job(committed, request.page_job_id, request.worker_id)
    /\ request' = [request EXCEPT !.pc = "done",
                                  !.returned = ClaimMatches(committed, request.page_job_id)]
    /\ UNCHANGED <<committed, lock, workerVars, poolVars, ingestVars, histVars>>
    /\ UNCHANGED <<managerVars, adapter>>

\* update_page_job_result as the worker calls it: with the text on success,
\* with None and the error message on failure
call_update_page_job_result ==
    /\ request.op = "update_page_job_result"
    /\ request.pc = "called"
    /\ working' =
           IF request.status = "completed"
           THEN update_page_job_result(committed, request.page_job_id,
                                       OcrOutput("a"), "completed", NULL)
           ELSE update_page_job_result(committed, request.page_job_id,
                                       NullText, "failed", OcrError.msg)
    /\ request' = [request EXCEPT !.pc = "done"]
    /\ UNCHANGED <<committed, lock, workerVars, poolVars, ingestVars, histVars>>
    /\ UNCHANGED <<managerVars, adapter>>

call_check_and_update_parent_status ==
    /\ request.op = "check_and_update_parent_status"
    /\ request.pc = "called"
    /\ working' = check_and_update_parent_status(committed, request.job_id)
    /\ request' = [request EXCEPT !.pc = "done"]
    /\ UNCHANGED <<committed, lock, workerVars, poolVars, ingestVars, histVars>>
    /\ UNCHANGED <<managerVars, adapter>>

CrudInit ==
    /\ committed \in CrudStores
    /\ working = committed
    /\ lock = NoLock
    /\ pc = [w \in Workers |-> "stopped"]
    /\ page_job = [w \in Workers |-> 0]
    /\ markdown = [w \in Workers |-> NullText]
    /\ exc = [w \in Workers |-> NoExc]
    /\ stop_event = FALSE
    /\ active_count = 0
    /\ ingest = IngestIdle
    /\ next_job = 3
    /\ next_page = FreePage
    /\ clock = FreePage
    /\ claim_true = [p \in PageIds |-> "never"]
    /\ process_count = [p \in PageIds |-> "never"]
    /\ worker_tasks = 0
    /\ worker_ids = <<>>
    /\ start_calls = "never"
    /\ adapter = get_ocr_backend
    /\ request \in CrudCalls

CrudNext ==
    \/ call_create_page_job
    \/ call_claim_page_job
    \/ call_update_page_job_result
    \/ call_check_and_update_parent_status

CrudSpec == CrudInit /\ [][CrudNext]_vars

\* ================================================================ claims
Terminal == {"completed", "failed"}

\* the multiset of the statuses of job j's PageJobs
StatusBag(db, j) ==
    LET present == {db.pages[p].status : p \in PagesOf(db, j)} IN
    [s \in present |-> Cardinality({p \in PagesOf(db, j) : db.pages[p].status = s})]

\* the status derivation rule, given the multiset M and the current status
DerivationRule(M, current) ==
    IF M = EmptyBag THEN current
    ELSE IF \A s \in BagToSet(M) : s = "completed" THEN "completed"
    ELSE IF BagIn("failed", M) /\ \A s \in BagToSet(M) : s \in Terminal THEN "failed"
    ELSE IF BagIn("processing", M) THEN "processing"
    ELSE current

\* worker w is inside an iteration on page p
MidIteration(w, p) == page_job[w] = p

\* the parent of the page worker w holds
ParentOf(w) == working.pages[page_job[w]].parent_job_id

\* C1: for every PageJob, at most one ClaimPageJob call returns true over
\* the lifetime of the PageJob, whatever the interleaving of the workers.
C1_AtMostOneClaimTrue == \A p \in PageIds : claim_true[p] \in {"never", "once"}

\* C2: every PageJob's image_data is passed to ProcessImage at most once in
\* total; a processed page is never picked up and processed again.
C2_ProcessedAtMostOnce == \A p \in PageIds : process_count[p] \in {"never", "once"}

\* C3: the statuses a PageJob takes are a prefix of
\* queued -> processing -> {completed | failed}: no step of the store takes a
\* row back to queued, out of completed or failed, or between the two.
StatusStep(a, b) ==
    \/ a = b
    \/ a = "queued" /\ b = "processing"
    \/ a = "processing" /\ b \in Terminal

C3_StatusDag ==
    [][\A p \in PageIds :
          (working.pages[p].exists /\ working'.pages[p].exists)
              => StatusStep(working.pages[p].status, working'.pages[p].status)]_vars

\* C4: after every RecomputeParentStatus(parent) that returns, Job.status
\* is the derivation rule applied to the multiset of the job's PageJob
\* statuses (and to the status the job had, where the rule leaves it alone).
RecomputeReturns(w) ==
    /\ pc[w] \in {"recompute_ok", "recompute_fail"}
    /\ pc'[w] = "close_ok"

C4_ParentDerivation ==
    [][\A w \in Workers :
          (RecomputeReturns(w) /\ working.jobs[ParentOf(w)].exists)
              => /\ working'.jobs[ParentOf(w)].exists
                 /\ working'.jobs[ParentOf(w)].status =
                        DerivationRule(StatusBag(working, ParentOf(w)),
                                       working.jobs[ParentOf(w)].status)
                 /\ working'.pages = working.pages]_vars

\* a recompute has just moved a job to "failed"
C4_Witness ==
    \E w \in Workers :
        /\ pc[w] = "close_ok"
        /\ lock = w
        /\ working.jobs[ParentOf(w)].exists
        /\ working.jobs[ParentOf(w)].status = "failed"
        /\ committed.jobs[ParentOf(w)].status = "queued"

\* C5: in every committed state Job.status is a function of the multiset of
\* the job's PageJob statuses (the derivation rule with "queued" where the
\* rule leaves the status alone), so two committed states with the same
\* multiset show the same Job.status.
C5_PureFunction ==
    \A j \in JobIds :
        committed.jobs[j].exists
            => committed.jobs[j].status = DerivationRule(StatusBag(committed, j), "queued")

\* a committed two-page job, one page of which has been claimed and processed
\* in more than one worker iteration, all of them over: every worker is back
\* at the top of its loop
C5_Witness ==
    \E j \in JobIds : \E p \in PagesOf(committed, j) :
        /\ committed.jobs[j].exists
        /\ committed.jobs[j].total_pages = 2
        /\ claim_true[p] = "more"
        /\ process_count[p] = "more"
        /\ \A w \in Workers : ~MidIteration(w, p) /\ pc[w] = "loop"

\* C6: every PageJob has an existing Job parent; DeleteJob leaves no
\* PageJob of the deleted job behind.
C6_NoOrphanPages ==
    \A p \in PageIds :
        committed.pages[p].exists => committed.jobs[committed.pages[p].parent_job_id].exists

\* C7: for every committed Job, total_pages is the number of its PageJobs
\* and their page_number values are exactly 1 .. total_pages.
C7_PageCount ==
    \A j \in JobIds :
        committed.jobs[j].exists
            => /\ Cardinality(PagesOf(committed, j)) = committed.jobs[j].total_pages
               /\ {committed.pages[p].page_number : p \in PagesOf(committed, j)}
                      = 1 .. committed.jobs[j].total_pages

\* a committed two-page job while a worker that claimed and processed one of
\* its pages is about to recompute the job
C7_Witness ==
    \E j \in JobIds :
        /\ committed.jobs[j].exists
        /\ committed.jobs[j].total_pages = 2
        /\ \E w \in Workers :
              /\ pc[w] = "recompute_ok"
              /\ ParentOf(w) = j
              /\ process_count[page_job[w]] # "never"

\* worker w, having recorded a result for the page it claimed and recomputed
\* the parent without an error, leaves the iteration: its session closes
IterationEnds(w) ==
    /\ pc[w] = "close_ok"
    /\ pc'[w] = "loop"
    /\ lock = w
    /\ working.pages[page_job[w]].status \in Terminal

\* C8 (as a final result): once a worker iteration that recorded a result
\* for a page without any error is over, a query session sees the page with
\* that result, completed or failed; if ProcessImage returned text t and it
\* was recorded, it sees completed with markdown_text = t.
C8_ResultObserved ==
    [][\A w \in Workers :
          IterationEnds(w)
              => /\ committed'.pages[page_job[w]].status = working.pages[page_job[w]].status
                 /\ working.pages[page_job[w]].status = "completed"
                        => committed'.pages[page_job[w]].markdown_text
                               = OcrOutput(committed'.pages[page_job[w]].image_data)]_vars

FailureRecorded(w) ==
    /\ pc[w] = "record_fail"
    /\ pc'[w] = "recompute_fail"

FailureRecomputed(w) ==
    /\ pc[w] = "recompute_fail"
    /\ pc'[w] = "close_ok"

TerminalJobMatchesPages(db) ==
    \A j \in JobIds :
        LET S == {db.pages[p].status : p \in PagesOf(db, j)} IN
        /\ (db.jobs[j].exists /\ db.jobs[j].status = "failed")
               => "failed" \in S /\ S \subseteq Terminal
        /\ (db.jobs[j].exists /\ db.jobs[j].status = "completed")
               => S = {"completed"}

C11_TerminalJobMatchesPages ==
    /\ TerminalJobMatchesPages(committed)
    /\ TerminalJobMatchesPages(working)

\* a worker's session holds a two-page job whose first page it has recorded
\* as failed while the second is queued: the recompute has left the job alone
C11_Witness ==
    \E w \in Workers :
        /\ pc[w] = "close_ok"
        /\ lock = w
        /\ working.jobs[ParentOf(w)].exists
        /\ working.jobs[ParentOf(w)].total_pages = 2
        /\ working.jobs[ParentOf(w)].status = "queued"
        /\ working.pages[page_job[w]].status = "failed"

\* C12: a worker leaves its loop only from the loop test, with the stop
\* signal set; an error raised by the store or the backend in an iteration,
\* also one raised while the failure is recorded or the parent recomputed,
\* takes the worker through the closing of its session to a sleep of 2
\* seconds and from there back to the loop test.
InIteration ==
    {"poll", "claim", "process", "record_ok", "recompute_ok",
     "record_fail", "recompute_fail"}

C12_WorkerSurvivesErrors ==
    [][\A w \in Workers :
          /\ (pc'[w] = "stopped" /\ pc[w] # "stopped")
                => pc[w] = "loop" /\ stop_event
          /\ (pc[w] \in InIteration /\ pc'[w] # pc[w])
                => pc'[w] \in InIteration \cup {"close_ok", "close_err", "idle_sleep"}
          /\ (pc[w] = "close_err" /\ pc'[w] # pc[w])
                => pc'[w] = "err_sleep" /\ SleepSeconds(pc'[w]) = 2
          /\ (pc[w] = "err_sleep" /\ pc'[w] # pc[w])
                => pc'[w] = "loop"]_vars

\* the store has raised while worker w was recording the failure of a page
\* whose result it could not record: the error is on its way out of the
\* session
C12_Witness ==
    \E w \in Workers :
        /\ pc[w] = "close_err"
        /\ lock = w
        /\ exc[w] = StoreError
        /\ working.pages[page_job[w]].status \in {"processing", "completed", "failed"}

\* C13: a worker whose backend call is in flight holds no store lock and no
\* open write transaction, so that another worker's claim or an ingest or
\* delete write can go through and two workers can be in the process step
\* at once.
InFlight(w) == pc[w] = "process"

C13_NoLockInFlight == \A w \in Workers : InFlight(w) => lock # w

\* what the code does instead: never more than one worker in the process step
SerializedWorkers ==
    /\ active_count <= 1
    /\ Cardinality({w \in Workers : InFlight(w)}) <= 1

\* C14: one process_image call makes at most 3 calls to the OCR service,
\* in every adapter and mode.
C14_AtMostThreeCalls == adapter.calls <= MaxAttempts

\* C15: process_image raises OCRProcessingError only after 3 attempts have
\* each failed, unless the adapter is not configured, and then without any
\* call; a call that returns, returns text.
C15_RaisesAfterThreeAttempts ==
    /\ adapter.pc = "raised"
          => /\ adapter.error.kind = "OCRProcessingError"
             /\ IF adapter.error = ConfigError
                THEN adapter.calls = 0 /\ ~adapter.configured
                ELSE adapter.failed = MaxAttempts
    /\ adapter.pc = "returned"
          => adapter.result # NULL /\ adapter.failed < MaxAttempts

\* C16: once stop() has set the stop signal on a running pool, every worker
\* leaves its loop and stop() returns; when it has returned no worker loop
\* is running, WorkerCount is 0, and no worker takes a step until the pool
\* is started again.
worker_count == worker_tasks

StopCalled == stop_event /\ worker_count > 0

StopReturned == stop_event /\ worker_count = 0

C16_StopTerminates ==
    /\ StopCalled ~> StopReturned
    /\ [](StopReturned => \A w \in Workers : pc[w] = "stopped")
    /\ [][(StopReturned /\ StopReturned') => pc' = pc]_vars

\* stop() has returned on a pool whose workers had claimed and processed a
\* page
C16_Witness ==
    /\ StopReturned
    /\ \E p \in PageIds : process_count[p] # "never"

\* C19: start(n) on a stopped pool clears the stop signal and leaves n
\* worker loops running under n pairwise distinct worker ids, WorkerCount
\* being n, also when the pool was started and stopped before.
Distinct(seq) == \A i, j \in 1 .. Len(seq) : i # j => seq[i] # seq[j]

Running == {w \in Workers : pc[w] # "stopped"}

C19_StartSpawnsN ==
    [][(worker_count = 0 /\ worker_count' > 0)
          => /\ ~stop_event'
             /\ Len(worker_ids') = worker_count'
             /\ Distinct(worker_ids')
             /\ Cardinality({w \in Workers : pc'[w] = "loop"}) = worker_count'
             /\ {w \in Workers : pc'[w] # "stopped"} = 1 .. worker_count']_vars

\* the pool runs NumWorkers loops after it was started, stopped and started
\* again, the random parts of the ids being equal
C19_Witness ==
    /\ start_calls = "more"
    /\ worker_count = NumWorkers
    /\ ~stop_event
    /\ \A w \in Workers : pc[w] = "loop"
    /\ worker_ids[1][2] = worker_ids[2][2]

\* C17: stop() interrupts no page in flight: when it has returned, every
\* PageJob a worker had claimed has its result on record, completed or
\* failed, and none is left in processing.
C17_ClaimedPagesRecorded ==
    StopReturned
        => \A p \in PageIds :
               (committed.pages[p].exists /\ claim_true[p] # "never")
                   => committed.pages[p].status \in Terminal

\* C18: active_count is the number of workers between the increment and the
\* decrement of the process step, so it lies between 0 and the number of
\* running workers and is 0 when every worker is idle or stopped; a worker
\* that leaves the process step, on whatever path, takes the count down by
\* exactly one.
InProcessStep ==
    {"process", "record_ok", "recompute_ok", "record_fail", "recompute_fail"}

Active == {w \in Workers : pc[w] \in InProcessStep}

ActiveCountMatches ==
    /\ active_count = Cardinality(Active)
    /\ 0 <= active_count
    /\ active_count <= Cardinality(Running)

C18_ActiveCount ==
    /\ [](ActiveCountMatches)
    /\ [][\A w \in Workers :
             /\ (w \notin Active /\ w \in Active') => active_count' = active_count + 1
             /\ (w \in Active /\ w \notin Active') => active_count' = active_count - 1]_vars

\* the store raised while worker w was recording the failure of a page whose
\* backend call had raised OCRProcessingError: the worker has left the
\* process step through the finally block alone
C18_Witness ==
    \E w \in Workers :
        /\ pc[w] = "close_err"
        /\ lock = w
        /\ exc[w] = OcrError
        /\ working.pages[page_job[w]].status = "processing"
        /\ active_count = 0

\* C20: when the Job of the page a worker is working on has been deleted,
\* the worker's record and recompute steps do not bring the Job back (a
\* status query keeps answering 404), leave no PageJob row of that Job in
\* the store, and the worker goes on running.
ParentDeleted(w) ==
    /\ pc[w] \in {"record_ok", "recompute_ok", "record_fail", "recompute_fail"}
    /\ pc'[w] # pc[w]
    /\ ~get_job(working, ParentOf(w))

JobStaysDeleted(w) ==
    /\ ~get_job(working', ParentOf(w))
    /\ ~get_job(committed', ParentOf(w))
    /\ pc'[w] # "stopped"

C20_DeleteMidProcessing ==
    [][\A w \in Workers :
          ParentDeleted(w)
              => /\ JobStaysDeleted(w)
                 /\ PagesOf(working', ParentOf(w)) = {}]_vars

\* the part of C20 the code keeps: the Job is not recreated, the worker runs on
DeletedJobNotRecreated ==
    [][\A w \in Workers : ParentDeleted(w) => JobStaysDeleted(w)]_vars

\* C21: submit_job creates the Job and its PageJobs in one transaction: a
\* failing PageJob insert leaves the committed store as it was before the
\* request, and no other session sees, polls or claims anything of a Job
\* whose pages are not all inserted.
IngestOpen == ingest.pc = "pages"

C21_IngestAtomic ==
    /\ [](IngestOpen
            => /\ ~get_job(committed, ingest.job)
               /\ PagesOf(committed, ingest.job) = {}
               /\ \A w \in Workers :
                      page_job[w] # 0
                          => committed.pages[page_job[w]].parent_job_id # ingest.job)
    /\ [][(IngestOpen /\ ~IngestOpen')
            => \/ committed' = committed
               \/ /\ get_job(committed', ingest.job)
                  /\ Cardinality(PagesOf(committed', ingest.job)) = Len(ingest.pages)]_vars

\* the request has inserted the Job and the first of its two pages, and a
\* worker is polling the store
C21_Witness ==
    /\ IngestOpen
    /\ Len(ingest.pages) = 2
    /\ ingest.i = 1
    /\ PagesOf(working, ingest.job) # {}
    /\ \E w \in Workers : pc[w] = "poll"

\* C22: every Job in the store has total_pages >= 1, whatever list of pages
\* the rasterizer returned, and total_pages never changes while the Job
\* exists.
TotalPagesImmutable ==
    [][\A j \in JobIds :
          (get_job(working, j) /\ get_job(working', j))
              => working'.jobs[j].total_pages = working.jobs[j].total_pages]_vars

C22_TotalPagesPositive ==
    /\ [](\A j \in JobIds : get_job(committed, j) => committed.jobs[j].total_pages >= 1)
    /\ TotalPagesImmutable

\* C23: Result lists one entry per PageJob in ascending page_number
\* 1 .. total_pages, and once a worker has completed page k and left its
\* iteration, entry k carries the markdown the backend returned for page k's
\* image; no page's text is stored on or reported for another page.
ImageOfPage(db, j, k) ==
    LET p == CHOOSE q \in PagesOf(db, j) : db.pages[q].page_number = k
    IN  db.pages[p].image_data

\* the entries are numbered 1 .. total_pages in order and none carries the
\* text of another page
ResultWellFormed(db, j) ==
    LET res == get_job_result(db, j) IN
    /\ Len(res) = db.jobs[j].total_pages
    /\ \A k \in 1 .. Len(res) :
          /\ res[k].page_number = k
          /\ res[k].markdown_text \in {NullText, OcrOutput(ImageOfPage(db, j, k))}

ResultOrdered ==
    \A j \in JobIds :
        /\ get_job(committed, j) => ResultWellFormed(committed, j)
        /\ (get_job(working, j) /\ ingest.job # j) => ResultWellFormed(working, j)

C23_ResultCarriesText ==
    /\ []ResultOrdered
    /\ [][\A w \in Workers :
             LET j == ParentOf(w)
                 k == working.pages[page_job[w]].page_number
             IN  (/\ IterationEnds(w)
                  /\ working.pages[page_job[w]].status = "completed"
                  /\ get_job(committed', j))
                     => get_job_result(committed', j)[k].markdown_text
                            = OcrOutput(ImageOfPage(committed', j, k))]_vars

\* a submission the handler has answered
SubmitAnswered == request.op = "submit" /\ request.pc = "done"

\* the submission is valid: allowed extension and size within the limit
ValidSubmission ==
    /\ Ext(request.filename) \in ALLOWED_EXTENSIONS
    /\ request.size <= max_size

\* C24: submit accepts a file if and only if its extension is allowed and its
\* size is at most MAX_FILE_SIZE_MB; a bad extension is answered 400 and an
\* oversize file 413, creating no Job; every other submission is accepted and
\* creates a Job.
C24_AcceptsIffExtensionAndSize ==
    SubmitAnswered =>
        /\ request.created <=> ValidSubmission
        /\ Ext(request.filename) \notin ALLOWED_EXTENSIONS => request.code = 400
        /\ (Ext(request.filename) \in ALLOWED_EXTENSIONS /\ request.size > max_size)
               => request.code = 413
        /\ request.code # 200 => ~request.created

\* a list request the handler has answered
ListAnswered == request.op = "list" /\ request.pc = "done"

\* C25: list answers 400, without querying the store, every request whose
\* page_size is outside [1, 100] or whose page is < 1, and every accepted
\* request returns at most page_size (<= 100) jobs.
C25_BadPagingRejected ==
    ListAnswered =>
        /\ (request.page_size \notin 1..MaxPageSize \/ request.page < 1)
               => (request.code = 400 /\ ~request.queried)
        /\ request.code = 200
               => (request.returned <= request.page_size /\ request.page_size <= MaxPageSize)

\* C26: in the self-hosted adapter a failed chat-completions call is always
\* followed by a call of the generate endpoint, whose text is returned if it
\* succeeds; OCRProcessingError is raised only after the fallback has failed
\* as well.
C26_FallbackOnChatFailure ==
    adapter.variant = "ollama" =>
        /\ (adapter.pc = "raised" /\ adapter.error # ConfigError)
               => (adapter.calls = 2 /\ adapter.error = AllApiFailed)
        /\ (adapter.pc = "returned" /\ adapter.failed >= 1) => adapter.calls = 2

\* an attempt of the retry loop has failed and no later attempt has started
AttemptJustFailed ==
    \/ adapter.pc \in {"backoff", "exhausted"}
    \/ adapter.pc = "raised" /\ adapter.error = RetriesExhausted

\* C29: whenever an attempt of process_image has failed with a retryable
\* error the cached client handle is discarded, so the next attempt, in this
\* call or in the next one, builds a new handle.
C29_ClientDiscardedOnFailure == AttemptJustFailed => ~adapter.client

\* a process_image call is over
CallFinished == adapter.pc \in {"returned", "raised"}

\* C30: a finished process_image call leaves no staged file behind, on any
\* path, and at most one staged file exists at any time.
C30_TempFilesUnlinked ==
    /\ Cardinality(adapter.tmp_files) <= 1
    /\ CallFinished => adapter.tmp_files = {}

\* all three attempts failed, each after staging its file, and none is left
C30_Witness ==
    /\ adapter.pc = "raised"
    /\ adapter.error = RetriesExhausted
    /\ adapter.tmp_path = MaxAttempts
    /\ adapter.slept = <<1, 2>>
    /\ adapter.tmp_files = {}

\* the PageJobs of store db that are in processing under worker id w
ProcessingBy(db, w) ==
    {p \in PageIds : /\ db.pages[p].exists
                     /\ db.pages[p].status = "processing"
                     /\ db.pages[p].worker_id = w}

\* no two PageJobs of store db are in processing under the same worker id
OneProcessingPagePerWorker(db) ==
    \A p \in PageIds :
        db.pages[p].status = "processing" =>
            \A q \in PageIds :
                (q # p /\ db.pages[q].status = "processing")
                    => db.pages[q].worker_id # db.pages[p].worker_id

\* C27: at every moment each worker id is on at most one PageJob in
\* processing, in the committed store and in the open transaction: a worker
\* never claims a page while one it claimed earlier is still in processing,
\* also after an iteration that ended with a store error.
C27_OneProcessingPagePerWorker ==
    /\ OneProcessingPagePerWorker(committed)
    /\ OneProcessingPagePerWorker(working)

\* a worker holds a page in processing that it has claimed before, in an
\* iteration whose claim was rolled back
C27_Witness ==
    \E w \in Workers :
        /\ pc[w] = "process"
        /\ ProcessingBy(working, w) = {page_job[w]}
        /\ claim_true[page_job[w]] = "more"
        /\ \E v \in Workers : v # w /\ pc[v] = "err_sleep"

\* PageJob p of store db has left queued
LeftQueued(db, p) == db.pages[p].exists /\ db.pages[p].status # "queued"

\* C28: a PageJob in processing has a non-null worker_id, set by the step that
\* moved it to processing, and recording the result and recomputing the parent
\* leave it alone: a page that has left queued carries the id of the worker
\* that claimed it and is working on it.
C28_WorkerIdKept ==
    \A p \in PageIds :
        /\ LeftQueued(committed, p) => committed.pages[p].worker_id # NoWorker
        /\ LeftQueued(working, p) =>
               /\ working.pages[p].worker_id \in Workers
               /\ working.pages[p].worker_id = lock
               /\ page_job[lock] = p

\* a worker has recorded the result of the page it claimed and recomputed the
\* parent: the terminal page carries the worker's id
C28_Witness ==
    \E w \in Workers :
        /\ pc[w] = "close_ok"
        /\ working.pages[page_job[w]].exists
        /\ working.pages[page_job[w]].status \in Terminal
        /\ working.pages[page_job[w]].worker_id = w
        /\ working.pages[page_job[w]].markdown_text # NullText
        /\ claim_true[page_job[w]] = "more"

\* the sleeps of a call whose attempts 1..k have failed and been slept on
BackoffSchedule(k) == [i \in 1..k |-> Pow2(i - 1)]

\* C31: between failed attempt k and attempt k+1 of one process_image call
\* (k = 1, 2) the adapter sleeps 2^(k-1) seconds, 1 s and then 2 s; it does
\* not sleep before the first attempt, after an attempt that succeeded or
\* after the third failed attempt.
C31_BackoffSchedule ==
    /\ Len(adapter.slept) <= MaxAttempts - 1
    /\ adapter.slept = BackoffSchedule(Len(adapter.slept))
    /\ \A i \in 1..Len(adapter.slept) : adapter.slept[i] = IF i = 1 THEN 1 ELSE 2
    /\ adapter.variant # "ollama" =>
           /\ adapter.pc \in {"stage", "call", "table_pass", "returned"}
                  => Len(adapter.slept) = adapter.failed
           /\ adapter.pc = "backoff" => Len(adapter.slept) = adapter.failed - 1
           /\ adapter.pc \in {"exhausted", "raised"}
                  => (adapter.failed = MaxAttempts /\ Len(adapter.slept) = MaxAttempts - 1)
    /\ adapter.variant = "ollama" => adapter.slept = <<>>

\* a call that succeeded on its third attempt: it slept 1 s and 2 s before
\* the retries and not after the success
C31_Witness ==
    /\ adapter.pc = "returned"
    /\ adapter.failed = 2
    /\ adapter.attempt = 2
    /\ adapter.slept = <<1, 2>>

\* worker w's call of get_next_queued_page returns in this step
PollReturns(w) == pc[w] = "poll" /\ pc'[w] \in {"claim", "idle_sleep"}

\* p is a queued PageJob of the store the poll read, and none is older
OldestQueued(p) ==
    /\ p \in QueuedPages(committed)
    /\ \A q \in QueuedPages(committed) :
           committed.pages[p].created_at <= committed.pages[q].created_at

\* C32: get_next_queued_page returns none if and only if no PageJob is
\* queued; otherwise it returns a queued PageJob whose created_at is minimal
\* among the queued PageJobs of all Jobs; it changes nothing in the store.
C32_NextQueuedPage ==
    [][\A w \in Workers :
          PollReturns(w) =>
              /\ pc'[w] = "idle_sleep" <=> QueuedPages(committed) = {}
              /\ pc'[w] = "claim" => OldestQueued(page_job'[w])
              /\ UNCHANGED storeVars]_vars

\* a worker has polled the oldest of several queued pages of two jobs
C32_Witness ==
    \E w \in Workers :
        /\ pc[w] = "claim"
        /\ OldestQueued(page_job[w])
        /\ \E q \in QueuedPages(committed) :
               /\ committed.pages[q].parent_job_id
                      # committed.pages[page_job[w]].parent_job_id
               /\ committed.pages[q].created_at
                      > committed.pages[page_job[w]].created_at

\* the PageJobs of one Job in store db are stamped in page_number order:
\* of any two of them the one with the smaller page_number is the older
CreatedInPageOrder(db) ==
    \A p \in PageIds :
        db.pages[p].exists =>
            \A q \in (p + 1) .. (MaxJobs * MaxPages) :
                (/\ db.pages[q].exists
                 /\ db.pages[q].parent_job_id = db.pages[p].parent_job_id)
                    => /\ db.pages[p].page_number < db.pages[q].page_number
                              => db.pages[p].created_at < db.pages[q].created_at
                       /\ db.pages[q].page_number < db.pages[p].page_number
                              => db.pages[q].created_at < db.pages[p].created_at

\* the pages of the same Job that are queued in worker w's transaction
QueuedSiblings(w) ==
    {q \in QueuedPages(working) :
        working.pages[q].parent_job_id = working.pages[page_job[w]].parent_job_id}

CrudDone(op) == request.op = op /\ request.pc = "done"

\* the PageJobs of store db that have request's parent and page_number
SamePageNumber(db) ==
    {p \in PageIds : /\ db.pages[p].exists
                     /\ db.pages[p].parent_job_id = request.parent_job_id
                     /\ db.pages[p].page_number = request.page_number}

\* C34: creating a PageJob whose (parent_job_id, page_number) is that of an
\* existing PageJob fails with an error and leaves the store unchanged; the
\* store never holds two PageJobs with the same parent and page_number.
C34_UniquePageNumber ==
    CrudDone("create_page_job") =>
        /\ SamePageNumber(committed) # {} => (request.raised /\ working = committed)
        /\ Cardinality(SamePageNumber(working)) <= 1

\* image_data, page_number and parent_job_id of every PageJob are what they
\* were before the call
CreationFieldsKept ==
    \A q \in PageIds :
        /\ working.pages[q].exists = committed.pages[q].exists
        /\ working.pages[q].image_data = committed.pages[q].image_data
        /\ working.pages[q].page_number = committed.pages[q].page_number
        /\ working.pages[q].parent_job_id = committed.pages[q].parent_job_id
        /\ working.pages[q].created_at = committed.pages[q].created_at

\* the call changed no PageJob but p, and no Job
OnlyPageChanged(p) ==
    /\ \A q \in PageIds : q # p => working.pages[q] = committed.pages[q]
    /\ working.jobs = committed.jobs

\* the call changed nothing but the status of Job j
OnlyJobStatusChanged(j) ==
    /\ working.pages = committed.pages
    /\ \A k \in JobIds : k # j => working.jobs[k] = committed.jobs[k]
    /\ working.jobs[j] = [committed.jobs[j] EXCEPT !.status = working.jobs[j].status]

\* C35: claim_page_job(p), update_page_job_result(p) and
\* check_and_update_parent_status(j) never change a PageJob's image_data,
\* page_number or parent_job_id; the first two change no PageJob other than p
\* and no Job, the third changes nothing but the status of Job j.
C35_FrameEffects ==
    /\ CrudDone("claim_page_job")
           => (CreationFieldsKept /\ OnlyPageChanged(request.page_job_id))
    /\ CrudDone("update_page_job_result")
           => (CreationFieldsKept /\ OnlyPageChanged(request.page_job_id))
    /\ CrudDone("check_and_update_parent_status")
           => (CreationFieldsKept /\ OnlyJobStatusChanged(request.job_id))

\* a recomputation has moved the first Job to a new status while a second
\* Job is in the store
C35_Witness ==
    /\ CrudDone("check_and_update_parent_status")
    /\ working.jobs[request.job_id].status # committed.jobs[request.job_id].status
    /\ \E k \in JobIds : k # request.job_id /\ committed.jobs[k].exists

\* C36: once a Job's status is completed or failed it never changes again
\* for as long as the Job exists, in the store every session reads and in
\* the transaction of the worker that set it.
C36_TerminalJobStable ==
    [][\A j \in JobIds :
          /\ (/\ committed.jobs[j].exists /\ committed'.jobs[j].exists
              /\ committed.jobs[j].status \in Terminal)
                 => committed'.jobs[j].status = committed.jobs[j].status
          /\ (/\ working.jobs[j].exists /\ working'.jobs[j].exists
              /\ working.jobs[j].status \in Terminal)
                 => working'.jobs[j].status = working.jobs[j].status]_vars

\* worker w's update_page_job_result call returns in this step
ResultWritten(w) ==
    \/ pc[w] = "record_ok" /\ pc'[w] = "recompute_ok"
    \/ FailureRecorded(w)

\* worker w's claim_page_job call returns false in this step
ClaimReturnsFalse(w) == pc[w] = "claim" /\ pc'[w] = "close_ok"

\* C37: a result is written for a PageJob only by the worker whose claim of
\* it returned true, and at the moment of the write the page is in
\* processing under that worker's id; a worker whose claim returned false
\* does not increment the active count, call the backend or write to the page.
C37_OnlyClaimerWrites ==
    [][\A w \in Workers :
          /\ ResultWritten(w) =>
                 /\ lock = w
                 /\ working.pages[page_job[w]].status = "processing"
                 /\ working.pages[page_job[w]].worker_id = w
          /\ ClaimReturnsFalse(w) =>
                 /\ active_count' = active_count
                 /\ process_count' = process_count
                 /\ working'.pages = committed.pages]_vars

\* PageJob p is in processing in the transaction that claimed it
InProcessing(p) == working.pages[p].exists /\ working.pages[p].status = "processing"

\* PageJob p is completed or failed, or any worker can claim it again
Settled(p) ==
    working.pages[p].exists
        => \/ working.pages[p].status \in Terminal
           \/ working.pages[p].status = "queued" /\ lock = NoLock

\* C38: whatever store calls of a worker iteration raise, no PageJob stays in
\* processing forever while its worker keeps running: a claimed page becomes
\* completed or failed, or is queued again for any worker to claim.
C38_ProcessingEnds ==
    (\E p \in PageIds : InProcessing(p)) ~> (\A p \in PageIds : Settled(p))

\* an iteration that claimed and processed a page has ended in an error, and
\* the page is queued again
C38_Witness ==
    \E w \in Workers : \E p \in PageIds :
        /\ pc[w] = "err_sleep"
        /\ claim_true[p] = "once"
        /\ process_count[p] = "once"
        /\ \A v \in Workers : v # w => pc[v] = "stopped"
        /\ lock = NoLock
        /\ committed.pages[p].status = "queued"

====
